---- MODULE Spec2Model ----
(***************************************************************************)
(* Model of the EduQuest-AI tutoring backend: the lesson endpoint          *)
(* (main_api.get_lesson) and the history / analytics engine                *)
(* (scripts/history_manager.py).                                           *)
(*                                                                         *)
(* Strings are sequences of one-character strings, so that slicing         *)
(* (answer[:150]), concatenation, strip() and split('(') are computed as   *)
(* the code computes them.  External collaborators (Qdrant, the encoder,   *)
(* the Groq model, the web-image and video searches) are inputs of the     *)
(* actions, drawn from small sets: what they return, or that they raise.   *)
(***************************************************************************)
EXTENDS Integers, Sequences, FiniteSets, TLC

VARIABLES client, encoder, collections, history, now, last, served

vars == <<client, encoder, collections, history, now, last, served>>

(***************************************************************************)
(* Bounds of the model.                                                    *)
(***************************************************************************)
\* number of point ids (uuid4 values) the store can hold in the history runs
MaxIds == 2
\* last clock tick of the history runs
MaxNow == 2
\* clock ticks per calendar day (the code's clock has 86400 seconds per day)
TicksPerDay == 2
\* largest limit passed to get_qdrant_history in the history runs
MaxLimit == 2

(***************************************************************************)
(* Program constants.                                                      *)
(***************************************************************************)
HISTORY_COLLECTION == "student_history"
KNOWLEDGE_COLLECTION == "textbook_knowledge"
\* answer[:150]
SummaryLen == 150
\* get_all_history scrolls with limit=1000
ScrollAllLimit == 1000
None == "None"

(***************************************************************************)
(* Strings.                                                                *)
(***************************************************************************)
Ellipsis == <<".", ".", ".">>

\* Python s[:n]
Take(s, n) == IF Len(s) <= n THEN s ELSE SubSeq(s, 1, n)

\* Python `sub in s`
Contains(s, sub) ==
    \E i \in 1..(Len(s) - Len(sub) + 1) : SubSeq(s, i, i + Len(sub) - 1) = sub

\* a long answer: more than SummaryLen characters, the tail differs from the head
LongAnswer == [i \in 1..(SummaryLen + 2) |-> IF i <= SummaryLen THEN "a" ELSE "b"]
ShortAnswer == <<"o", "k">>
Answers == {ShortAnswer, LongAnswer}

Newline == "\n"

\* the characters str.strip() removes (those with str.isspace() true): the
\* ASCII ones, then U+000B, U+001C to U+001F, U+0085 and U+00A0 written as
\* themselves, then the ones beyond Latin-1 written by their Python escape
Whitespace ==
    {" ", "\t", Newline, "\r", "\f",
     "", "", "", "", "", "", " ",
     "\\u1680", "\\u2000", "\\u2001", "\\u2002", "\\u2003", "\\u2004",
     "\\u2005", "\\u2006", "\\u2007", "\\u2008", "\\u2009", "\\u200a",
     "\\u2028", "\\u2029", "\\u202f", "\\u205f", "\\u3000"}

IsSpace(c) == c \in Whitespace

RECURSIVE LStrip(_)
LStrip(s) == IF s # <<>> /\ IsSpace(Head(s)) THEN LStrip(Tail(s)) ELSE s

RECURSIVE RStrip(_)
RStrip(s) ==
    IF s # <<>> /\ IsSpace(s[Len(s)]) THEN RStrip(SubSeq(s, 1, Len(s) - 1)) ELSE s

\* str.strip()
Strip(s) == RStrip(LStrip(s))

\* s.split('(')[0]
RECURSIVE BeforeFirstParen(_)
BeforeFirstParen(s) ==
    IF s = <<>> THEN <<>>
    ELSE IF Head(s) = "(" THEN <<>>
    ELSE <<Head(s)>> \o BeforeFirstParen(Tail(s))

TopicUnchanged(topic) == Strip(topic)

\* lines 185-187: clean_topic
CleanTopic(topic) == Strip(BeforeFirstParen(Strip(topic)))

TopicRibosome == <<"r", "i", "b">>
TopicDna == <<"D", "N", "A">>
TopicPhotoIntro ==
    <<"P","h","o","t","o","s","y","n","t","h","e","s","i","s"," ","(","i","n",
      "t","r","o",")">>
\* the (query, answer) pairs logged in the history runs
LogInputs == {<<TopicRibosome, ShortAnswer>>, <<TopicDna, LongAnswer>>}

(***************************************************************************)
(* Timestamps.  datetime.now().strftime("%Y-%m-%d %H:%M:%S") is modelled   *)
(* as the pair <<date part, time-of-day part>>; strings of that fixed      *)
(* format compare field by field.                                          *)
(***************************************************************************)
FormatTimestamp(t) == <<t \div TicksPerDay, t % TicksPerDay>>

\* datetime.strptime(date, "%Y-%m-%d %H:%M:%S"), as an absolute tick count
ParseTimestamp(d) == d[1] * TicksPerDay + d[2]

\* Python string comparison a < b on two formatted timestamps
DateLess(a, b) == a[1] < b[1] \/ (a[1] = b[1] /\ a[2] < b[2])

(***************************************************************************)
(* The vector store's history collection: a set of points                  *)
(* [id, topic, summary, full_answer, timestamp].                           *)
(***************************************************************************)
Ids(h) == {p.id : p \in h}

MinId(h) == CHOOSE i \in Ids(h) : \A j \in Ids(h) : i <= j

PointOf(h, i) == CHOOSE p \in h : p.id = i

\* the points of h in the store's scroll order (by point id)
RECURSIVE InIdOrder(_)
InIdOrder(h) ==
    IF h = {} THEN <<>>
    ELSE <<PointOf(h, MinId(h))>> \o InIdOrder(h \ {PointOf(h, MinId(h))})

\* client.scroll(collection_name=HISTORY_COLLECTION, limit=limit): the first page
Scroll(h, limit) == Take(InIdOrder(h), limit)

\* point_id = str(uuid.uuid4()): any id that no stored point has; the runs
\* draw it from the ids 1..n
FreshIds(n) == (1..n) \ Ids(history)

\* whether a store call on the history collection raises
StoreRaises(fault) == fault \/ HISTORY_COLLECTION \notin collections

(***************************************************************************)
(* history_data.sort(key=lambda x: x['date'], reverse=True): a stable sort *)
(* by date, descending.                                                    *)
(***************************************************************************)
RECURSIVE InsertAscending(_, _)
InsertAscending(x, s) ==
    IF s = <<>> THEN <<x>>
    ELSE IF DateLess(x.date, s[1].date) THEN <<x>> \o s
    ELSE <<s[1]>> \o InsertAscending(x, Tail(s))

RECURSIVE SortAscending(_)
SortAscending(s) ==
    IF s = <<>> THEN <<>>
    ELSE InsertAscending(s[Len(s)], SortAscending(SubSeq(s, 1, Len(s) - 1)))

RECURSIVE InsertDescending(_, _)
InsertDescending(x, s) ==
    IF s = <<>> THEN <<x>>
    ELSE IF DateLess(s[1].date, x.date) THEN <<x>> \o s
    ELSE <<s[1]>> \o InsertDescending(x, Tail(s))

RECURSIVE SortDescending(_)
SortDescending(s) ==
    IF s = <<>> THEN <<>>
    ELSE InsertDescending(s[Len(s)], SortDescending(SubSeq(s, 1, Len(s) - 1)))

SortByDate(s) == SortDescending(s)

(***************************************************************************)
(* history_manager.init_client / close_client                              *)
(***************************************************************************)
InitOutcomes ==
    {"ok", "connect_fails", "encoder_fails", "get_collections_fails",
     "create_collection_fails"}

\* init_history_db() with the client handle cl and the collections cols:
\* client.get_collections() raises on an unset handle (AttributeError) or on a
\* store fault; the history collection is created if it does not exist
InitHistoryDb(cl, cols, getFails, createFails) ==
    IF cl = None \/ getFails
    THEN [raised |-> TRUE, collections |-> cols]
    ELSE IF HISTORY_COLLECTION \in cols
    THEN [raised |-> FALSE, collections |-> cols]
    ELSE IF createFails
    THEN [raised |-> TRUE, collections |-> cols]
    ELSE [raised |-> FALSE, collections |-> cols \cup {HISTORY_COLLECTION}]

InitClient(outcome) ==
    /\ IF client # None
       THEN /\ UNCHANGED <<client, encoder, collections>>
            /\ last' = [op |-> "init_client", raised |-> FALSE]
       ELSE LET reachedDb == outcome \notin {"connect_fails", "encoder_fails"}
                db == InitHistoryDb("open", collections,
                                    outcome = "get_collections_fails",
                                    outcome = "create_collection_fails")
            IN  /\ client' = IF outcome = "connect_fails" THEN None ELSE "open"
                /\ encoder' = IF reachedDb THEN "loaded" ELSE encoder
                /\ collections' = IF reachedDb THEN db.collections ELSE collections
                /\ last' = [op |-> "init_client",
                            raised |-> (~reachedDb \/ db.raised)]
    /\ UNCHANGED <<history, now, served>>

\* a call of init_history_db() on its own (scripts/test_history.py, line 15)
InitHistoryDbCall(getFails, createFails) ==
    LET db == InitHistoryDb(client, collections, getFails, createFails) IN
    /\ collections' = db.collections
    /\ last' = [op |-> "init_history_db", raised |-> db.raised]
    /\ UNCHANGED <<client, encoder, history, now, served>>

CloseClientKeepsEncoder(closeRaises) ==
    /\ client' = None
    /\ encoder' = IF client # None /\ closeRaises THEN encoder ELSE None
    /\ last' = [op |-> "close_client", raised |-> FALSE,
                closeRaised |-> (client # None /\ closeRaises)]
    /\ UNCHANGED <<collections, history, now, served>>

CloseClient(closeRaises) ==
    /\ client' = None
    /\ encoder' = None
    /\ last' = [op |-> "close_client", raised |-> FALSE,
                closeRaised |-> (client # None /\ closeRaises)]
    /\ UNCHANGED <<collections, history, now, served>>

(***************************************************************************)
(* history_manager.log_activity_to_qdrant(query, answer)                   *)
(*   id: the uuid4 drawn; encodeFails, upsertFails: collaborator faults.   *)
(* LogOutcome is what the call does, given the handles and the store.      *)
(***************************************************************************)
Summary(answer) == Take(answer, SummaryLen) \o Ellipsis

NewPoint(query, answer, id) ==
    [id |-> id, topic |-> query, summary |-> Summary(answer),
     full_answer |-> answer, timestamp |-> FormatTimestamp(now)]

LogOutcome(query, answer, id, encodeFails, upsertFails) ==
    IF client = None
    THEN [raised |-> FALSE, wrote |-> FALSE, history |-> history]
    ELSE IF encoder = None \/ encodeFails \/ StoreRaises(upsertFails)
    THEN [raised |-> TRUE, wrote |-> FALSE, history |-> history]
    ELSE [raised |-> FALSE, wrote |-> TRUE,
          history |-> {p \in history : p.id # id} \cup {NewPoint(query, answer, id)}]

LogActivity(query, answer, id, encodeFails, upsertFails) ==
    LET r == LogOutcome(query, answer, id, encodeFails, upsertFails) IN
    /\ history' = r.history
    /\ last' = [op |-> "log_activity", query |-> query, answer |-> answer,
                id |-> id, raised |-> r.raised, wrote |-> r.wrote]
    /\ UNCHANGED <<client, encoder, collections, now, served>>

(***************************************************************************)
(* history_manager.get_qdrant_history(limit)                               *)
(***************************************************************************)
HistoryItem(p) ==
    [id |-> p.id, topic |-> p.topic, summary |-> p.summary, date |-> p.timestamp]

ItemsOf(points) == [i \in 1..Len(points) |-> HistoryItem(points[i])]

GetQdrantHistory(limit, scrollFails) ==
    IF client = None THEN <<>>
    ELSE IF StoreRaises(scrollFails) THEN <<>>
    ELSE SortByDate(ItemsOf(Scroll(history, limit)))

\* the item of the point written by the operation just before this one, when
\* that operation was a log_activity_to_qdrant call that wrote: <<item>>, else <<>>
JustLogged ==
    IF last.op = "log_activity" /\ last.wrote
    THEN <<HistoryItem(PointOf(history, last.id))>>
    ELSE <<>>

ListHistory(limit, scrollFails) ==
    /\ last' = [op |-> "get_history", limit |-> limit,
                result |-> GetQdrantHistory(limit, scrollFails),
                storeFailed |-> (client = None \/ StoreRaises(scrollFails)),
                justLogged |-> JustLogged,
                loggedQuery |-> IF JustLogged = <<>> THEN <<>> ELSE last.query,
                loggedAnswer |-> IF JustLogged = <<>> THEN <<>> ELSE last.answer]
    /\ UNCHANGED <<client, encoder, collections, history, now, served>>

(***************************************************************************)
(* history_manager.delete_history_record(point_id)                         *)
(*   client.delete(points_selector=[point_id]) removes the point if it     *)
(*   is stored; on an id that is not stored the store either does nothing  *)
(*   or raises (missingRaises); deleteFails is a store fault.              *)
(***************************************************************************)
DeleteRaises(point_id, deleteFails, missingRaises) ==
    \/ StoreRaises(deleteFails)
    \/ (point_id \notin Ids(history) /\ missingRaises)

DeleteResult(point_id, deleteFails, missingRaises) ==
    IF client = None THEN FALSE
    ELSE IF DeleteRaises(point_id, deleteFails, missingRaises) THEN FALSE
    ELSE TRUE

DeleteHistoryRecordAndOlder(point_id, deleteFails, missingRaises) ==
    /\ history' = IF client # None /\ ~DeleteRaises(point_id, deleteFails, missingRaises)
                  THEN {p \in history : p.id > point_id}
                  ELSE history
    /\ last' = [op |-> "delete", id |-> point_id,
                existed |-> point_id \in Ids(history),
                clientWas |-> client,
                result |-> DeleteResult(point_id, deleteFails, missingRaises)]
    /\ UNCHANGED <<client, encoder, collections, now, served>>

DeleteHistoryRecord(point_id, deleteFails, missingRaises) ==
    /\ history' = IF client # None /\ ~DeleteRaises(point_id, deleteFails, missingRaises)
                  THEN {p \in history : p.id # point_id}
                  ELSE history
    /\ last' = [op |-> "delete", id |-> point_id,
                existed |-> point_id \in Ids(history),
                clientWas |-> client,
                result |-> DeleteResult(point_id, deleteFails, missingRaises)]
    /\ UNCHANGED <<client, encoder, collections, now, served>>

(***************************************************************************)
(* The clock.                                                              *)
(***************************************************************************)
Tick ==
    /\ now < MaxNow
    /\ now' = now + 1
    /\ last' = [op |-> "tick"]
    /\ UNCHANGED <<client, encoder, collections, history, served>>

(***************************************************************************)
(* The history engine: startup, shutdown, log, list, delete.               *)
(***************************************************************************)
InitHistory ==
    /\ client = None
    /\ encoder = None
    /\ collections = {KNOWLEDGE_COLLECTION}
    /\ history = {}
    /\ now = 0
    /\ last = [op |-> "start"]
    /\ served = 0

HistoryStartup == \E o \in InitOutcomes : InitClient(o)

HistoryShutdown == \E c \in BOOLEAN : CloseClient(c)

HistoryDbInit == \E g \in BOOLEAN, c \in BOOLEAN : InitHistoryDbCall(g, c)

HistoryLog ==
    \E qa \in LogInputs, id \in FreshIds(MaxIds),
       e \in BOOLEAN, u \in BOOLEAN :
        LogActivity(qa[1], qa[2], id, e, u)

HistoryList == \E l \in 1..MaxLimit, f \in BOOLEAN : ListHistory(l, f)

HistoryDelete ==
    \E id \in 1..MaxIds, f \in BOOLEAN, m \in BOOLEAN : DeleteHistoryRecord(id, f, m)

NextHistory ==
    \/ HistoryStartup
    \/ HistoryShutdown
    \/ HistoryDbInit
    \/ HistoryLog
    \/ HistoryList
    \/ HistoryDelete
    \/ Tick

SpecHistory == InitHistory /\ [][NextHistory]_vars

(***************************************************************************)
(* main_api.get_lesson                                                     *)
(*                                                                         *)
(* Image paths, descriptions and video objects are only stored and         *)
(* compared for equality by the code, so they are plain values here.       *)
(***************************************************************************)
NO_CONTEXT ==
    <<"N","o"," ","s","p","e","c","i","f","i","c"," ","c","o","n","t","e","x",
      "t"," ","f","o","u","n","d"," ","i","n"," ","t","h","e"," ","t","e","x",
      "t","b","o","o","k",".">>

TroublePrefix ==
    <<"I","'","m"," ","h","a","v","i","n","g"," ","t","r","o","u","b","l","e",
      " ","t","h","i","n","k","i","n","g"," ","r","i","g","h","t"," ","n","o",
      "w","."," ","E","r","r","o","r",":"," ">>

FailedPrefix ==
    <<"F","a","i","l","e","d"," ","t","o"," ","p","r","o","c","e","s","s"," ",
      "q","u","e","r","y",":"," ">>

EncodingErrorPrefix ==
    <<"E","R","R","O","R",":"," ","E","n","c","o","d","i","n","g"," ","o","r",
      " ","D","B"," ","e","r","r","o","r",":"," ">>

NotInitializedMsg ==
    <<"E","R","R","O","R",":"," ","D","a","t","a","b","a","s","e"," ","n","o",
      "t"," ","i","n","i","t","i","a","l","i","z","e","d","."," ","P","l","e",
      "a","s","e"," ","r","e","s","t","a","r","t"," ","t","h","e"," ","s","e",
      "r","v","e","r",".">>

CollectionMissingMsg ==
    <<"E","R","R","O","R",":"," ","C","o","l","l","e","c","t","i","o","n"," ",
      "'","t","e","x","t","b","o","o","k","_","k","n","o","w","l","e","d","g",
      "e","'"," ","n","o","t"," ","f","o","u","n","d","."," ","P","l","e","a",
      "s","e"," ","r","u","n"," ","t","h","e"," ","i","n","g","e","s","t"," ",
      "s","c","r","i","p","t"," ","f","i","r","s","t"," ","t","o"," ","p","o",
      "p","u","l","a","t","e"," ","t","h","e"," ","d","a","t","a","b","a","s",
      "e",".">>

\* context_text[:3000]
ContextLimit == 3000
\* hm.search_images(vector, limit=2)
ImageSearchLimit == 2
\* if len(images) < 2: (web fallback)
EnoughLocalImages == 2
\* if len(images) >= 3: break
MaxTotalImages == 3
\* images[:2]
MaxReturnedImages == 2
\* DDGS().images(max_results=3)
MaxWebResults == 3

\* largest number of hits the text search returns in the lesson runs (the code
\* asks for limit=5)
MaxTextHits == 2
\* number of requests served in the lesson runs
MaxLessons == 1


\* payloads of the knowledge collection
TextPayload == [hasPayload |-> TRUE, type |-> "text", content |-> <<"a", "b">>,
                image_path |-> None]
ImagePayload1 == [hasPayload |-> TRUE, type |-> "image", content |-> <<"c">>,
                  image_path |-> "p1"]
ImagePayload2 == [hasPayload |-> TRUE, type |-> "image", content |-> <<"d">>,
                  image_path |-> "p2"]
\* an image point ingested without an image_path
ImagePayloadNoPath == [hasPayload |-> TRUE, type |-> "image", content |-> <<"e">>,
                       image_path |-> None]
\* a point without payload: res.payload is None
NoPayload == [hasPayload |-> FALSE, type |-> None, content |-> <<>>,
              image_path |-> None]

SeqsUpTo(S, n) == UNION {[1..k -> S] : k \in 0..n}

TextHitLists == SeqsUpTo({TextPayload, ImagePayload1, NoPayload}, MaxTextHits)
ImageHitLists ==
    SeqsUpTo({ImagePayload1, ImagePayload2, ImagePayloadNoPath}, ImageSearchLimit)
WebImage(p) == [path |-> p, description |-> <<"w">>]
WebLists == SeqsUpTo({WebImage("p1"), WebImage("w1")}, MaxWebResults)

ErrorDetail == <<"5", "0", "3">>
LlmOutcomes == {[ok |-> TRUE, text |-> ShortAnswer],
                [ok |-> FALSE, text |-> ErrorDetail]}
Videos == {None, "video1"}
LessonQueries == {TopicRibosome, TopicDna, TopicPhotoIntro}

TextOutcomes ==
    {[fails |-> TRUE, hits |-> <<>>]} \cup {[fails |-> FALSE, hits |-> h] : h \in TextHitLists}
ImageOutcomes ==
    {[fails |-> TRUE, hits |-> <<>>]} \cup {[fails |-> FALSE, hits |-> h] : h \in ImageHitLists}
LogFaults == {"none", "encode_fails", "upsert_fails"}

\* what the collaborators do during one request, once the readiness checks
\* and the encoding of the query have passed
RetrievalInputs ==
    [colCheckFails : {FALSE}, encodeFails : {FALSE},
     text : TextOutcomes, image : ImageOutcomes, web : WebLists,
     llm : LlmOutcomes, video : Videos, log : LogFaults]

\* a request that a failing collection check or a failing encoder ends early
\* (nothing after that is called)
EarlyFaultInputs ==
    [colCheckFails : BOOLEAN, encodeFails : BOOLEAN,
     text : {[fails |-> FALSE, hits |-> <<>>]},
     image : {[fails |-> FALSE, hits |-> <<>>]}, web : {<<>>},
     llm : {[ok |-> TRUE, text |-> ShortAnswer]}, video : {None}, log : {"none"}]

CheckCollectionExistsWhenListed(name, getCollectionsFails) ==
    IF client = None THEN FALSE
    ELSE IF getCollectionsFails THEN FALSE
    ELSE collections # {}

\* hm.check_collection_exists(name)
CheckCollectionExists(name, getCollectionsFails) ==
    IF client = None THEN FALSE
    ELSE IF getCollectionsFails THEN FALSE
    ELSE name \in collections

\* lines 98-107: the loop over the text search's results; a raise (the search
\* itself, or a result without payload) leaves the context built so far
RECURSIVE AppendTextHits(_, _)
AppendTextHits(ctx, hits) ==
    IF hits = <<>> THEN ctx
    ELSE IF ~Head(hits).hasPayload THEN ctx
    ELSE IF Head(hits).type = "text"
         THEN AppendTextHits(ctx \o Head(hits).content \o <<Newline, Newline>>,
                             Tail(hits))
         ELSE AppendTextHits(ctx, Tail(hits))

TextContext(textFails, hits) ==
    IF textFails THEN <<>> ELSE AppendTextHits(<<>>, hits)

\* hm.search_images(vector, limit=2): the payloads, or [] when the search raises
SearchImages(imageFails, hits) ==
    IF client = None THEN <<>>
    ELSE IF imageFails THEN <<>>
    ELSE hits

Paths(images) == {images[i].path : i \in 1..Len(images)}

\* lines 114-117: local images, skipping a missing or repeated path
RECURSIVE AddLocalImages(_, _)
AddLocalImages(images, payloads) ==
    IF payloads = <<>> THEN images
    ELSE LET p == Head(payloads) IN
         IF p.image_path # None /\ p.image_path \notin Paths(images)
         THEN AddLocalImages(
                  Append(images, [path |-> p.image_path, description |-> p.content]),
                  Tail(payloads))
         ELSE AddLocalImages(images, Tail(payloads))

WebFallbackBelowThree(images) == Len(images) < MaxTotalImages

\* line 120
WebFallbackNeeded(images) == Len(images) < EnoughLocalImages

\* lines 123-125: web images appended until the list holds three
RECURSIVE AddWebImages(_, _)
AddWebImages(images, web) ==
    IF web = <<>> THEN images
    ELSE IF Len(images) >= MaxTotalImages THEN images
    ELSE AddWebImages(Append(images, Head(web)), Tail(web))

BuildImages(payloads, web) ==
    LET local == AddLocalImages(<<>>, payloads) IN
    IF WebFallbackNeeded(local) THEN AddWebImages(local, web) ELSE local

ContextKeptEmpty(ctx) == ctx

\* lines 135-136
ContextOrSentinel(ctx) == IF ctx = <<>> THEN NO_CONTEXT ELSE ctx

AnswerWithoutDetail(llm) == IF llm.ok THEN llm.text ELSE TroublePrefix

\* lines 153-163: the model's answer, or the fallback answer naming the error
Answer(llm) == IF llm.ok THEN llm.text ELSE TroublePrefix \o llm.text

\* the early returns of lines 81, 87 and 133
EarlyReturn(stage, query, answer, error) ==
    [op |-> "get_lesson", stage |-> stage, query |-> query,
     answer |-> answer, images |-> <<>>, video |-> None, error |-> error,
     llmCalled |-> FALSE, webCalled |-> FALSE, logWrote |-> FALSE]

\* lines 166-171: the video found is kept unless the try block raised
VideoReturned(found, logRaised) == IF logRaised THEN None ELSE found

LessonLogNormalized(query, answer, id, in) ==
    LogOutcome(CleanTopic(query), answer, id, in.log = "encode_fails",
               in.log = "upsert_fails")

\* hm.log_activity_to_qdrant(user_query, answer) at line 168
LessonLog(query, answer, id, in) ==
    LogOutcome(query, answer, id, in.log = "encode_fails", in.log = "upsert_fails")

\* whether the request returns before the retrieval stages (lines 78-87, 94, 130)
ReturnsEarly(in) ==
    \/ client = None \/ encoder = None
    \/ ~CheckCollectionExists(KNOWLEDGE_COLLECTION, in.colCheckFails)
    \/ in.encodeFails

\* what get_lesson returns and what it did on the way (lines 73-173)
LessonResult(query, in, id) ==
    IF client = None \/ encoder = None
    THEN EarlyReturn("not_initialized", query, NotInitializedMsg, NotInitializedMsg)
    ELSE IF ~CheckCollectionExists(KNOWLEDGE_COLLECTION, in.colCheckFails)
    THEN EarlyReturn("collection_missing", query, CollectionMissingMsg,
                     CollectionMissingMsg)
    ELSE IF in.encodeFails
    THEN EarlyReturn("encode_failed", query, FailedPrefix \o ErrorDetail,
                     EncodingErrorPrefix \o ErrorDetail)
    ELSE
    LET payloads == SearchImages(in.image.fails, in.image.hits)
        local == AddLocalImages(<<>>, payloads)
        images == BuildImages(payloads, in.web)
        context == ContextOrSentinel(TextContext(in.text.fails, in.text.hits))
        answer == Answer(in.llm)
        log == LessonLog(query, answer, id, in)
    IN  [op |-> "get_lesson", stage |-> "done", query |-> query,
         answer |-> answer,
         images |-> Take(images, MaxReturnedImages),
         video |-> VideoReturned(in.video, log.raised),
         error |-> <<>>,
         \* what happened on the way
         text |-> in.text,
         imagePayloads |-> payloads,
         webCalled |-> WebFallbackNeeded(local),
         imagesBuilt |-> images,
         llmCalled |-> TRUE,
         llmContext |-> Take(context, ContextLimit),
         llm |-> in.llm,
         videoFound |-> in.video,
         logRaised |-> log.raised, logWrote |-> log.wrote]

GetLesson(query, in, id) ==
    LET r == LessonResult(query, in, id) IN
    /\ last' = r
    /\ history' = IF r.stage = "done"
                  THEN LessonLog(query, r.answer, id, in).history
                  ELSE history
    /\ served' = served + 1
    /\ UNCHANGED <<client, encoder, collections, now>>

(***************************************************************************)
(* The lesson service: startup, requests, shutdown.                        *)
(***************************************************************************)
Init ==
    /\ client = None
    /\ encoder = None
    /\ collections \in {{}, {KNOWLEDGE_COLLECTION}}
    /\ history = {}
    /\ now = 0
    /\ last = [op |-> "start"]
    /\ served = 0

Startup == \E o \in InitOutcomes : InitClient(o)

Shutdown == \E c \in BOOLEAN : CloseClient(c)

Lesson ==
    /\ served < MaxLessons
    /\ \E q \in LessonQueries, id \in FreshIds(MaxIds) :
          \/ \E in \in EarlyFaultInputs : ReturnsEarly(in) /\ GetLesson(q, in, id)
          \/ \E in \in RetrievalInputs : ~ReturnsEarly(in) /\ GetLesson(q, in, id)

Next ==
    \/ Startup
    \/ Shutdown
    \/ Lesson

Spec == Init /\ [][Next]_vars

(***************************************************************************)
(* history_manager.get_all_history / analyze_learning_patterns             *)
(***************************************************************************)
\* if count == 1 or (days_since and days_since > 7)
WeakDays == 7
\* elif count >= 3
StrongCount == 3
\* weak_topics[:10], strong_topics[:10], most_common(10)
ListCap == 10
\* the sort key of a weak topic whose days_ago is not an int
MissingDaysKey == 999
\* days_ago is "N/A" or an int: the text, or <<d>> for the day count d
NotAvailable == <<"N", "/", "A">>

\* number of records stored in the analytics runs
MaxStudy == 4

TopicPhotoAdvanced ==
    <<"P","h","o","t","o","s","y","n","t","h","e","s","i","s"," ","(","a","d",
      "v","a","n","c","e","d",")">>
TopicPhotosynthesis ==
    <<"P","h","o","t","o","s","y","n","t","h","e","s","i","s">>
TopicMitosis ==
    <<"M","i","t","o","s","i","s">>
StudyTopics == {TopicPhotoIntro, TopicPhotoAdvanced, TopicMitosis}

\* get_all_history(): every record (the first 1000 in scroll order), newest first
GetAllHistory(scrollFails) ==
    IF client = None THEN <<>>
    ELSE IF StoreRaises(scrollFails) THEN <<>>
    ELSE SortByDate(ItemsOf(Scroll(history, ScrollAllLimit)))

\* lines 183-196: each record's clean topic and parsed date
Cleaned(all) ==
    [i \in 1..Len(all) |->
        [topic |-> CleanTopic(all[i].topic), studied |-> ParseTimestamp(all[i].date)]]

\* the keys of topic_counts, in the order the Counter first met them
RECURSIVE TopicOrder(_)
TopicOrder(cl) ==
    IF cl = <<>> THEN <<>>
    ELSE LET front == TopicOrder(SubSeq(cl, 1, Len(cl) - 1))
             t == cl[Len(cl)].topic
         IN  IF \E i \in 1..Len(front) : front[i] = t THEN front ELSE Append(front, t)

\* topic_counts[topic]
TopicCount(cl, topic) == Cardinality({i \in 1..Len(cl) : cl[i].topic = topic})

\* topic_last_studied[topic]: the latest parsed date of the topic's records
LastStudied(cl, topic) ==
    LET dates == {cl[i].studied : i \in {j \in 1..Len(cl) : cl[j].topic = topic}}
    IN  CHOOSE d \in dates : \A e \in dates : e <= d

\* (today - last_studied).days
DaysSince(today, studied) == (today - studied) \div TicksPerDay

IsWeakFromSevenDays(count, days) == count = 1 \/ (days # 0 /\ days >= WeakDays)

\* line 221
IsWeak(count, days) == count = 1 \/ (days # 0 /\ days > WeakDays)

\* line 228 (reached when line 221 is false)
IsStrong(count, days) ==
    ~IsWeak(count, days) /\ count >= StrongCount /\ (days = 0 \/ days <= WeakDays)

\* last_studied.strftime("%Y-%m-%d")
DateOnly(studied) == FormatTimestamp(studied)[1]

WeakEntry(cl, today, topic) ==
    LET days == DaysSince(today, LastStudied(cl, topic)) IN
    [topic |-> topic, count |-> TopicCount(cl, topic),
     last_studied |-> DateOnly(LastStudied(cl, topic)),
     days_ago |-> IF days # 0 THEN <<days>> ELSE NotAvailable]

StrongEntry(cl, topic) ==
    [topic |-> topic, count |-> TopicCount(cl, topic),
     last_studied |-> DateOnly(LastStudied(cl, topic))]

\* lines 213-233: the weak topics, in topic_counts order
RECURSIVE ClassifyWeak(_, _, _)
ClassifyWeak(cl, today, topics) ==
    IF topics = <<>> THEN <<>>
    ELSE LET t == Head(topics)
             rest == ClassifyWeak(cl, today, Tail(topics))
         IN  IF IsWeak(TopicCount(cl, t), DaysSince(today, LastStudied(cl, t)))
             THEN <<WeakEntry(cl, today, t)>> \o rest
             ELSE rest

\* lines 213-233: the strong topics, in topic_counts order
RECURSIVE ClassifyStrong(_, _, _)
ClassifyStrong(cl, today, topics) ==
    IF topics = <<>> THEN <<>>
    ELSE LET t == Head(topics)
             rest == ClassifyStrong(cl, today, Tail(topics))
         IN  IF IsStrong(TopicCount(cl, t), DaysSince(today, LastStudied(cl, t)))
             THEN <<StrongEntry(cl, t)>> \o rest
             ELSE rest

\* line 236: the sort key (count, days_ago or 999)
WeakKey(e) ==
    <<e.count, IF e.days_ago = NotAvailable THEN MissingDaysKey ELSE e.days_ago[1]>>

KeyLess(a, b) == a[1] < b[1] \/ (a[1] = b[1] /\ a[2] < b[2])

RECURSIVE InsertWeak(_, _)
InsertWeak(x, s) ==
    IF s = <<>> THEN <<x>>
    ELSE IF KeyLess(WeakKey(x), WeakKey(s[1])) THEN <<x>> \o s
    ELSE <<s[1]>> \o InsertWeak(x, Tail(s))

\* weak_topics.sort(key=...): stable, ascending
RECURSIVE SortWeak(_)
SortWeak(s) ==
    IF s = <<>> THEN <<>>
    ELSE InsertWeak(s[Len(s)], SortWeak(SubSeq(s, 1, Len(s) - 1)))

\* lines 199-205: activity_by_date
ActivityByDate(all) ==
    [d \in {all[i].date[1] : i \in 1..Len(all)} |->
        Cardinality({i \in 1..Len(all) : all[i].date[1] = d})]

\* no groq_api_key
NoRecommender == [key |-> FALSE, ok |-> FALSE, text |-> <<>>]

\* what the chat completion of lines 254-258 gives: a text (a heading, a blank
\* line and an advice, each ended by "\r\n"), or an exception
RecommendationTexts ==
    {[key |-> TRUE, ok |-> TRUE,
      text |-> <<"#", "T", "\r", Newline, " ", "\r", Newline,
                 "g", "o", "\r", Newline>>],
     [key |-> TRUE, ok |-> FALSE, text |-> <<>>],
     NoRecommender}

\* line 262: the two fixed recommendations
REVIEW_REGULARLY ==
    <<"R","e","v","i","e","w"," ","y","o","u","r"," ","w","e","a","k",
      " ","t","o","p","i","c","s"," ","r","e","g","u","l","a","r","l",
      "y">>
PRACTICE_RECALL ==
    <<"P","r","a","c","t","i","c","e"," ","a","c","t","i","v","e"," ",
      "r","e","c","a","l","l">>

FallbackRecommendations == <<REVIEW_REGULARLY, PRACTICE_RECALL>>

\* recommendations_text.split('\n')
RECURSIVE SplitLines(_)
SplitLines(s) ==
    IF \A i \in 1..Len(s) : s[i] # Newline THEN <<s>>
    ELSE LET k == CHOOSE i \in 1..Len(s) :
                      s[i] = Newline /\ \A j \in 1..(i - 1) : s[j] # Newline
         IN  <<SubSeq(s, 1, k - 1)>> \o SplitLines(SubSeq(s, k + 1, Len(s)))

\* line 259: the stripped lines that are not empty and do not start with '#'
RECURSIVE KeptLines(_)
KeptLines(lines) ==
    IF lines = <<>> THEN <<>>
    ELSE LET r == Strip(Head(lines)) IN
         IF r # <<>> /\ Head(r) # "#"
         THEN <<r>> \o KeptLines(Tail(lines))
         ELSE KeptLines(Tail(lines))

Recommendations(weak, llm) ==
    IF weak = <<>> \/ ~llm.key THEN <<>>
    ELSE IF llm.ok THEN KeptLines(SplitLines(llm.text))
    ELSE FallbackRecommendations

EmptySnapshot ==
    [total_topics |-> 0, topic_frequency |-> <<>>, activity_by_date |-> <<>>,
     weak_topics |-> <<>>, strong_topics |-> <<>>, recommendations |-> <<>>,
     weakAll |-> <<>>, strongAll |-> <<>>, lastStudied |-> <<>>]

\* analyze_learning_patterns on the fetched history `all`, at time `today`.
\* The two chart tables, top_topics and the sorted activity labels, are
\* renderings of topic_frequency and activity_by_date and are not repeated.
\* weakAll, strongAll and lastStudied are the function's locals weak_topics,
\* strong_topics (before they are cut to ListCap entries) and
\* topic_last_studied.
AnalyzeLearningPatterns(all, today, llm) ==
    IF all = <<>> THEN EmptySnapshot
    ELSE
    LET cl == Cleaned(all)
        topics == TopicOrder(cl)
        weakAll == ClassifyWeak(cl, today, topics)
        weak == SortWeak(weakAll)
        strong == ClassifyStrong(cl, today, topics)
    IN  [total_topics |-> Len(topics),
         total_sessions |-> Len(all),
         topic_frequency |-> [i \in 1..Len(topics) |->
                                 [topic |-> topics[i], count |-> TopicCount(cl, topics[i])]],
         activity_by_date |-> ActivityByDate(all),
         weak_topics |-> Take(weak, ListCap),
         strong_topics |-> Take(strong, ListCap),
         recommendations |-> Recommendations(weak, llm),
         weakAll |-> weakAll,
         strongAll |-> strong,
         lastStudied |-> [i \in 1..Len(topics) |->
                             [topic |-> topics[i], studied |-> LastStudied(cl, topics[i])]]]

Analyze(scrollFails, llm) ==
    LET all == GetAllHistory(scrollFails) IN
    /\ last' = [op |-> "analyze",
                fetched |-> Len(all),
                result |-> AnalyzeLearningPatterns(all, now, llm)]
    /\ UNCHANGED <<client, encoder, collections, history, now, served>>

(***************************************************************************)
(* The analytics runs: records are logged at a few instants of the clock,  *)
(* chosen around the 7-day threshold, and analysed.                        *)
(***************************************************************************)
ClockInstants == {0, 1, TicksPerDay, (WeakDays + 1) * TicksPerDay}

AdvanceClock ==
    /\ \E t \in ClockInstants : t > now /\ now' = t
    /\ last' = [op |-> "tick"]
    /\ UNCHANGED <<client, encoder, collections, history, served>>

InitAnalytics == InitHistory

AnalyticsStartup == InitClient("ok")

Study ==
    /\ client # None
    /\ Cardinality(history) < MaxStudy
    /\ \E t \in StudyTopics, id \in FreshIds(MaxStudy) :
          LogActivity(t, ShortAnswer, id, FALSE, FALSE)

AnalyticsRequest ==
    \/ \E llm \in RecommendationTexts : Analyze(FALSE, llm)
    \/ Analyze(TRUE, NoRecommender)

NextAnalytics ==
    \/ AnalyticsStartup
    \/ Study
    \/ AdvanceClock
    \/ AnalyticsRequest

SpecAnalytics == InitAnalytics /\ [][NextAnalytics]_vars

(***************************************************************************)
(* The normalization runs: one record with a topic drawn from short        *)
(* strings of letters, spaces and parentheses (or one of the named         *)
(* topics), optionally a record with the topic "ATP", then an analysis.    *)
(***************************************************************************)
\* longest topic drawn from the alphabet
MaxTopicLen == 4

TopicAlphabet == {"a", " ", "(", ")"}

TopicAtp == <<"A","T","P">>
TopicAtpEnergySynthesis ==
    <<"A","T","P"," ","(","e","n","e","r","g","y",")"," ","s","y","n","t","h",
      "e","s","i","s">>
TopicMitosisAdvanced ==
    <<"M","i","t","o","s","i","s"," ","(","a","d","v","a","n","c","e","d",
      ")">>

NormalizationTopics ==
    SeqsUpTo(TopicAlphabet, MaxTopicLen)
        \cup {TopicAtpEnergySynthesis, TopicMitosisAdvanced, TopicPhotoIntro}

StudyForNormalization ==
    /\ client # None
    /\ \/ /\ history = {}
          /\ \E t \in NormalizationTopics, id \in FreshIds(MaxIds) :
                LogActivity(t, ShortAnswer, id, FALSE, FALSE)
       \/ /\ Cardinality(history) = 1
          /\ \E id \in FreshIds(MaxIds) :
                LogActivity(TopicAtp, ShortAnswer, id, FALSE, FALSE)

NextNormalization ==
    \/ AnalyticsStartup
    \/ StudyForNormalization
    \/ AnalyticsRequest

SpecNormalization == InitAnalytics /\ [][NextNormalization]_vars

(***************************************************************************)
(* history_manager.suggest_next_topic                                      *)
(***************************************************************************)
\* get_qdrant_history(limit=10)
DefaultLimit == 10
\* get_qdrant_history()[:3]
RecentCount == 3

\* number of point ids, and so of records stored, in the suggestion runs
MaxSuggestStudy == 11
\* number of lessons taken in one suggestion run
MaxSuggestNew == 2

START_SUGGESTION ==
    <<"S","t","a","r","t"," ","b","y"," ","a","s","k","i","n","g"," ","a","b",
      "o","u","t"," ","'","C","e","l","l"," ","S","t","r","u","c","t","u","r",
      "e","'"," ","o","r"," ","'","D","N","A","'","!">>
FALLBACK_SUGGESTION ==
    <<"T","r","y"," ","s","t","u","d","y","i","n","g"," ","'","P","h","o","t",
      "o","s","y","n","t","h","e","s","i","s","'"," ","n","e","x","t","!">>

\* the chat completion of lines 350-362: a suggestion, or an exception
SuggestionOutcomes ==
    {[ok |-> TRUE, text |-> ShortAnswer], [ok |-> FALSE, text |-> ErrorDetail]}

\* recent_history = get_qdrant_history()[:3]
RecentHistory(scrollFails) == Take(GetQdrantHistory(DefaultLimit, scrollFails), RecentCount)

\* the topics joined into the prompt (line 349)
TopicsOf(items) == [i \in 1..Len(items) |-> items[i].topic]

SuggestResult(recent, llm) ==
    IF recent = <<>> THEN START_SUGGESTION
    ELSE IF llm.ok THEN llm.text
    ELSE FALLBACK_SUGGESTION

SuggestNextTopic(scrollFails, llm) ==
    LET recent == RecentHistory(scrollFails) IN
    /\ last' = [op |-> "suggest",
                result |-> SuggestResult(recent, llm),
                storeFailed |-> (client = None \/ StoreRaises(scrollFails)),
                llmCalled |-> recent # <<>>,
                llm |-> llm,
                sentTopics |-> TopicsOf(recent),
                sentIds |-> [i \in 1..Len(recent) |-> recent[i].id]]
    /\ UNCHANGED <<client, encoder, collections, history, now, served>>

(***************************************************************************)
(* The suggestion runs.  The store is on disk (DB_PATH) and outlives the   *)
(* process: a run starts on an empty store or on the records that earlier  *)
(* runs left, under any of the ids.  The student then takes lessons on the *)
(* topic of the current period, the clock moves on, and a suggestion is    *)
(* asked for.                                                              *)
(***************************************************************************)
PersistedRecord(id) ==
    [id |-> id, topic |-> TopicMitosis, summary |-> Summary(ShortAnswer),
     full_answer |-> ShortAnswer, timestamp |-> FormatTimestamp(0)]

PersistedStores ==
    {{}} \cup
    {{PersistedRecord(i) : i \in S} :
        S \in {T \in SUBSET (1..MaxSuggestStudy) :
                  Cardinality(T) = MaxSuggestStudy - MaxSuggestNew}}

InitSuggest ==
    /\ client = None
    /\ encoder = None
    /\ history \in PersistedStores
    /\ collections = IF history = {} THEN {KNOWLEDGE_COLLECTION}
                     ELSE {KNOWLEDGE_COLLECTION, HISTORY_COLLECTION}
    /\ now = 0
    /\ last = [op |-> "start"]
    /\ served = 0

TopicOfPeriod(t) ==
    IF t = 0 THEN TopicRibosome ELSE IF t = 1 THEN TopicDna ELSE TopicPhotoIntro

\* a lesson during which no collaborator fails
StudyInput ==
    [colCheckFails |-> FALSE, encodeFails |-> FALSE,
     text |-> [fails |-> FALSE, hits |-> <<TextPayload>>],
     image |-> [fails |-> FALSE, hits |-> <<>>], web |-> <<>>,
     llm |-> [ok |-> TRUE, text |-> ShortAnswer], video |-> None, log |-> "none"]

StudyCurrent ==
    /\ client # None
    /\ served < MaxSuggestNew
    /\ \E id \in FreshIds(MaxSuggestStudy) :
          GetLesson(TopicOfPeriod(now), StudyInput, id)

SuggestRequest ==
    \E f \in BOOLEAN, llm \in SuggestionOutcomes : SuggestNextTopic(f, llm)

NextSuggest ==
    \/ AnalyticsStartup
    \/ StudyCurrent
    \/ Tick
    \/ SuggestRequest

SpecSuggest == InitSuggest /\ [][NextSuggest]_vars

(***************************************************************************)
(* The history store under all of its operations: the history engine's     *)
(* steps together with analyses and suggestions.                           *)
(***************************************************************************)
NextStore ==
    \/ NextHistory
    \/ AnalyticsRequest
    \/ SuggestRequest

SpecStore == InitHistory /\ [][NextStore]_vars

(***************************************************************************)
(* Concurrent get_lesson requests.  get_lesson is a coroutine without an   *)
(* await: once the event loop starts it for a request it runs to its       *)
(* return.  Requests that have arrived wait in the loop and are handled    *)
(* one at a time, in any order.  In these runs `last` holds the queries in *)
(* arrival order and the responses in completion order.                    *)
(***************************************************************************)
\* number of requests in flight together
MaxInFlight == 2

ConcurrentQueries == {TopicRibosome, TopicDna}

\* what the collaborators do during one of the concurrent requests
ConcurrentInputs ==
    [colCheckFails : {FALSE}, encodeFails : {FALSE},
     text : {[fails |-> TRUE, hits |-> <<>>], [fails |-> FALSE, hits |-> <<TextPayload>>]},
     image : {[fails |-> FALSE, hits |-> <<>>],
              [fails |-> FALSE, hits |-> <<ImagePayload1, ImagePayload2>>]},
     web : {<<WebImage("w1")>>},
     llm : LlmOutcomes, video : {"video1"}, log : {"none", "upsert_fails"}]

\* the requests that have arrived and the responses given, when serving
Arrived == IF last.op = "serve" THEN last.arrived ELSE <<>>

Responses == IF last.op = "serve" THEN last.responses ELSE <<>>

Handled == {Responses[i].req : i \in 1..Len(Responses)}

LastArrivedQuery(arrived, req) == arrived[Len(arrived)]

\* line 74: user_query = request.query, the handler's own request
OwnQuery(arrived, req) == arrived[req]

\* the ids the requests handled so far drew
DrawnIds == {Responses[i].recordId : i \in 1..Len(Responses)}

\* a request arrives once the application has started (lifespan startup done)
Arrive ==
    /\ last.op \in {"init_client", "serve"}
    /\ Len(Arrived) < MaxInFlight
    /\ \E q \in ConcurrentQueries :
          last' = [op |-> "serve", arrived |-> Append(Arrived, q), responses |-> Responses]
    /\ UNCHANGED <<client, encoder, collections, history, now, served>>

\* the event loop runs get_lesson for one of the waiting requests
HandleRequest ==
    /\ last.op = "serve"
    /\ \E req \in (1..Len(Arrived)) \ Handled, in \in ConcurrentInputs,
          id \in FreshIds(MaxInFlight) \ DrawnIds :
          LET query == OwnQuery(Arrived, req)
              r == LessonResult(query, in, id)
          IN  /\ last' = [op |-> "serve", arrived |-> Arrived,
                          responses |-> Append(Responses,
                              [req |-> req, in |-> in, recordId |-> id, result |-> r])]
              /\ history' = IF r.stage = "done"
                            THEN LessonLog(query, r.answer, id, in).history
                            ELSE history
              /\ served' = served + 1
    /\ UNCHANGED <<client, encoder, collections, now>>

ConcurrentStartup == last.op = "start" /\ InitClient("ok")

NextConcurrent ==
    \/ ConcurrentStartup
    \/ Arrive
    \/ HandleRequest

SpecConcurrent == Init /\ [][NextConcurrent]_vars

(***************************************************************************)
(* Claims about the history engine (checked under SpecHistory).            *)
(***************************************************************************)
\* C3: delete_history_record on an id that matches no stored record returns
\* false; it returns false when the client is unavailable; it returns true
\* only when a record with that id existed and was removed.
C3_DeleteTrueOnlyIfRemoved ==
    last.op = "delete" =>
        /\ (last.clientWas = None => last.result = FALSE)
        /\ (~last.existed => last.result = FALSE)
        /\ (last.result = TRUE => last.existed /\ last.id \notin Ids(history))

\* the record just logged is strictly newer than every other stored record
StrictlyNewest(item) ==
    \A p \in history : p.id # item.id => DateLess(p.timestamp, item.date)

\* C4: log_activity(q, a) immediately followed by get_qdrant_history(1) (the
\* store answering) returns exactly the record just logged, with topic q and
\* summary a[:150] + "..."; stated for the case most favourable to it, where
\* the record just logged is strictly the newest.
C4_LogThenListRoundTrip ==
    (last.op = "get_history" /\ last.limit = 1 /\ last.justLogged # <<>>
        /\ ~last.storeFailed /\ StrictlyNewest(last.justLogged[1])) =>
        /\ last.result = last.justLogged
        /\ last.result[1].topic = last.loggedQuery
        /\ last.result[1].summary = Take(last.loggedAnswer, SummaryLen) \o Ellipsis

DistinctTimestamps(h) ==
    \A p1 \in h, p2 \in h : p1.id # p2.id => p1.timestamp # p2.timestamp

\* C5: for stored records with distinct timestamps and any limit,
\* get_qdrant_history(limit) returns at most `limit` records, in strictly
\* descending timestamp order.
C5_ListSortedDescending ==
    last.op = "get_history" =>
        /\ Len(last.result) <= last.limit
        /\ DistinctTimestamps(history) =>
               \A i \in 1..Len(last.result), j \in 1..Len(last.result) :
                   i < j => DateLess(last.result[j].date, last.result[i].date)

\* a listing of two records whose scroll (id) order is the reverse of their
\* timestamp order, so that the sort had to reorder them
C5_Witness ==
    /\ last.op = "get_history"
    /\ Len(last.result) = 2
    /\ DistinctTimestamps(history)
    /\ last.result[1].id > last.result[2].id

(***************************************************************************)
(* Claims about get_lesson (checked under Spec).                           *)
(***************************************************************************)
\* C1: the images of every get_lesson response are at most 2 and no two of
\* them share a path.
C1_ImagesAtMostTwoDistinct ==
    last.op = "get_lesson" =>
        /\ Len(last.images) <= 2
        /\ \A i \in 1..Len(last.images), j \in 1..Len(last.images) :
               i # j => last.images[i].path # last.images[j].path

\* C2 as stated: when search_images returns 2 or more results, the web-image
\* fallback is not invoked.
C2_NoWebWhenTwoResults ==
    (last.op = "get_lesson" /\ last.stage = "done" /\ Len(last.imagePayloads) >= 2)
        => ~last.webCalled

\* the image paths the local search's results carry
PathsOfPayloads(payloads) ==
    {payloads[i].image_path : i \in 1..Len(payloads)} \ {None}

\* C2 as amended: when search_images returns results carrying 2 or more
\* distinct, non-empty image paths, the web-image fallback is not invoked.
C2_NoWebWhenTwoLocalImages ==
    (last.op = "get_lesson" /\ last.stage = "done"
        /\ Cardinality(PathsOfPayloads(last.imagePayloads)) >= 2)
        => ~last.webCalled

\* two local results with distinct paths: both are returned, no web search
C2_Witness ==
    /\ last.op = "get_lesson" /\ last.stage = "done"
    /\ Cardinality(PathsOfPayloads(last.imagePayloads)) >= 2
    /\ ~last.webCalled
    /\ Len(last.images) = 2

\* C6: when the model call raises, the request still returns: a non-empty
\* answer containing the error detail, at most 2 images, and a video that is
\* a video object or null.
C6_ModelFailureStillAnswers ==
    (last.op = "get_lesson" /\ last.llmCalled /\ ~last.llm.ok) =>
        /\ last.stage = "done"
        /\ last.answer # <<>>
        /\ Contains(last.answer, last.llm.text)
        /\ Len(last.images) <= 2
        /\ last.video \in Videos

\* the model call raised and the response still carries images and a video
C6_Witness ==
    /\ last.op = "get_lesson" /\ last.llmCalled /\ ~last.llm.ok
    /\ last.video # None
    /\ Len(last.images) = 2

\* the text search contributes no passage: it raised, or returned no result
\* of type text
NoTextPassage(text) ==
    \/ text.fails
    \/ \A i \in 1..Len(text.hits) : text.hits[i].type # "text"

\* C7: when the text search contributes no text passage, the context given to
\* the model is exactly the sentinel, and the model is still called.
C7_SentinelWhenNoText ==
    (last.op = "get_lesson" /\ last.stage = "done" /\ NoTextPassage(last.text)) =>
        /\ last.llmCalled
        /\ last.llmContext = NO_CONTEXT

\* each way of contributing nothing: a failing search, and results that are
\* all images
C7_Witness ==
    /\ last.op = "get_lesson" /\ last.stage = "done"
    /\ ~last.text.fails /\ Len(last.text.hits) = MaxTextHits
    /\ NoTextPassage(last.text)
    /\ last.llmContext = NO_CONTEXT

\* C10: when persisting the history record fails, the response is the one the
\* request would have returned had it succeeded: the same answer and images,
\* and the video that was found.
C10_PersistFailureNotSurfaced ==
    (last.op = "get_lesson" /\ last.stage = "done" /\ last.logRaised) =>
        /\ last.answer = Answer(last.llm)
        /\ last.images = Take(last.imagesBuilt, MaxReturnedImages)
        /\ last.video = last.videoFound

(***************************************************************************)
(* Claims about analyze_learning_patterns.                                 *)
(***************************************************************************)
\* the last operation was an analysis that fetched every stored record
AnalysedAll == last.op = "analyze" /\ last.fetched = Cardinality(history)

NamesIn(entries) == {entries[i].topic : i \in 1..Len(entries)}

\* the stored records of a normalized topic, their number, and the whole days
\* from the latest of them to now
RecordsOf(b) == {p \in history : CleanTopic(p.topic) = b}

FrequencyOf(b) == Cardinality(RecordsOf(b))

LatestOf(records) ==
    LET ts == {ParseTimestamp(p.timestamp) : p \in records}
    IN  CHOOSE t \in ts : \A u \in ts : u <= t

DaysSinceLastStudied(b) == (now - LatestOf(RecordsOf(b))) \div TicksPerDay

\* "Mitosis" studied once 10 days ago and "DNA" studied 4 times 2 days ago,
\* as get_all_history returns them
ScenarioHistory ==
    [i \in 1..5 |->
        IF i <= 4
        THEN [id |-> i, topic |-> TopicDna, summary |-> Summary(ShortAnswer),
              date |-> FormatTimestamp(8 * TicksPerDay)]
        ELSE [id |-> i, topic |-> TopicMitosis, summary |-> Summary(ShortAnswer),
              date |-> FormatTimestamp(0)]]

ScenarioSnapshot ==
    AnalyzeLearningPatterns(ScenarioHistory, 10 * TicksPerDay, NoRecommender)

\* C8: an analysis of the whole history classifies a normalized topic with
\* frequency f, last studied d whole days ago, as weak exactly when f = 1 or
\* d > 7 and as strong exactly when f >= 3 and d <= 7 (so a topic meeting
\* neither condition is in neither list), and the returned lists are these
\* classifications while they have at most 10 entries; the history Mitosis x1
\* 10 days ago, DNA x4 2 days ago gives weak Mitosis and strong DNA.
C8_WeakStrongClassification ==
    /\ AnalysedAll =>
          /\ \A b \in {CleanTopic(p.topic) : p \in history} :
                LET f == FrequencyOf(b)
                    d == DaysSinceLastStudied(b)
                IN  /\ b \in NamesIn(last.result.weakAll) <=> (f = 1 \/ d > 7)
                    /\ b \in NamesIn(last.result.strongAll) <=> (f >= 3 /\ d <= 7)
          /\ Len(last.result.weakAll) <= 10 =>
                NamesIn(last.result.weak_topics) = NamesIn(last.result.weakAll)
          /\ Len(last.result.strongAll) <= 10 =>
                last.result.strong_topics = last.result.strongAll
    /\ NamesIn(ScenarioSnapshot.weak_topics) = {TopicMitosis}
    /\ NamesIn(ScenarioSnapshot.strong_topics) = {TopicDna}

\* an analysis that finds a weak topic and a strong topic together, the strong
\* one last studied exactly 7 days ago
C8_Witness ==
    /\ AnalysedAll
    /\ last.result.weakAll # <<>>
    /\ \E b \in NamesIn(last.result.strongAll) : DaysSinceLastStudied(b) = 7

\* the topic with a final "(...)" group and the whitespace around it removed
LastOpenParen(s) ==
    CHOOSE k \in 1..Len(s) : s[k] = "(" /\ \A j \in (k + 1)..Len(s) : s[j] # "("

TrailingSuffixRemoved(topic) ==
    LET s == Strip(topic) IN
    IF s # <<>> /\ s[Len(s)] = ")" /\ \E k \in 1..Len(s) : s[k] = "("
    THEN Strip(SubSeq(s, 1, LastOpenParen(s) - 1))
    ELSE s

ParenFree(s) == \A i \in 1..Len(s) : s[i] \notin {"(", ")"}

\* two topics that differ only in a trailing parenthetical suffix, after a
\* common prefix without parentheses
DifferOnlyInSuffix(t1, t2) ==
    /\ t1 # t2
    /\ TrailingSuffixRemoved(t1) = TrailingSuffixRemoved(t2)
    /\ ParenFree(TrailingSuffixRemoved(t1))

\* C9: when an analysis of the whole history meets two records whose topics
\* differ only in a trailing parenthetical suffix, it counts them in one
\* bucket named by the common prefix: the prefix has one frequency entry, the
\* number of the records with that prefix, no entry is named by a suffixed
\* topic, and the bucket's last-studied date is the most recent date of these
\* records.
C9_SuffixVariantsShareBucket ==
    AnalysedAll =>
        \A p1 \in history, p2 \in history :
            DifferOnlyInSuffix(p1.topic, p2.topic) =>
                LET b == TrailingSuffixRemoved(p1.topic)
                    members == {p \in history : TrailingSuffixRemoved(p.topic) = b}
                    freq == last.result.topic_frequency
                    studied == last.result.lastStudied
                IN  /\ Cardinality({i \in 1..Len(freq) : freq[i].topic = b}) = 1
                    /\ \A i \in 1..Len(freq) :
                          /\ freq[i].topic = b => freq[i].count = Cardinality(members)
                          /\ freq[i].topic \notin {p1.topic, p2.topic}
                    /\ \A i \in 1..Len(studied) :
                          studied[i].topic = b => studied[i].studied = LatestOf(members)

\* "Photosynthesis (intro)" then, later, "Photosynthesis (advanced)": one
\* bucket "Photosynthesis" of frequency 2, last studied at the later date
C9_Witness ==
    /\ AnalysedAll
    /\ {<<p.topic, ParseTimestamp(p.timestamp)>> : p \in history}
          = {<<TopicPhotoIntro, 0>>, <<TopicPhotoAdvanced, TicksPerDay>>}
    /\ last.result.topic_frequency = <<[topic |-> TopicPhotosynthesis, count |-> 2]>>
    /\ last.result.lastStudied = <<[topic |-> TopicPhotosynthesis, studied |-> TicksPerDay]>>

(***************************************************************************)
(* Further claims about get_lesson.                                        *)
(***************************************************************************)
\* the service is not ready for a lesson: a handle is unset or the knowledge
\* collection does not exist
NotReady ==
    \/ client = None
    \/ encoder = None
    \/ KNOWLEDGE_COLLECTION \notin collections

\* a step that handles a get_lesson request
LessonStep == served' = served + 1 /\ last'.op = "get_lesson"

\* C11: a get_lesson request made while the client or the encoder is unset, or
\* while the knowledge collection does not exist, returns at once: its answer
\* is the error message, its images are empty and its video is null, no web
\* lookup and no model call was made, and the stored history is unchanged.
C11_NotReadyReturnsError ==
    [][(LessonStep /\ NotReady) =>
          /\ last'.stage \in {"not_initialized", "collection_missing"}
          /\ last'.stage = "not_initialized" <=> (client = None \/ encoder = None)
          /\ last'.answer \in {NotInitializedMsg, CollectionMissingMsg}
          /\ last'.error = last'.answer
          /\ last'.images = <<>>
          /\ last'.video = None
          /\ ~last'.webCalled /\ ~last'.llmCalled /\ ~last'.logWrote
          /\ history' = history]_vars

\* both handles are set, the knowledge collection is missing, and the request
\* was answered with the collection-missing error
C11_Witness ==
    /\ last.op = "get_lesson" /\ last.stage = "collection_missing"
    /\ client # None /\ encoder # None
    /\ KNOWLEDGE_COLLECTION \notin collections
    /\ last.answer = CollectionMissingMsg

\* C12: a get_lesson request whose model call succeeds, and whose history
\* write is accepted, adds exactly one record to the stored history; the
\* record's topic is the query as it was sent and its full_answer is the
\* answer returned.
C12_OneRecordPerLesson ==
    [][(LessonStep /\ last'.stage = "done" /\ last'.llm.ok /\ ~last'.logRaised) =>
          /\ history \subseteq history'
          /\ Cardinality(history' \ history) = 1
          /\ \A p \in history' \ history :
                /\ p.topic = last'.query
                /\ p.full_answer = last'.answer
                /\ p.id \notin Ids(history)]_vars

\* a lesson on a query with a parenthetical suffix was generated and stored
\* under the query text itself
C12_Witness ==
    /\ last.op = "get_lesson" /\ last.stage = "done" /\ last.llm.ok
    /\ last.query = TopicPhotoIntro
    /\ last.logWrote
    /\ \E p \in history : p.topic = TopicPhotoIntro /\ p.full_answer = last.answer

(***************************************************************************)
(* Further claims about the analytics.                                     *)
(***************************************************************************)
\* the pair (frequency, whole days since last studied) of a listed topic
ActualPair(entry) == <<entry.count, DaysSinceLastStudied(entry.topic)>>

PairAtMost(a, b) == a[1] < b[1] \/ (a[1] = b[1] /\ a[2] <= b[2])

\* C13: the weak_topics of an analysis of the whole history are in ascending
\* order of the pair (frequency, days since last studied), the days being the
\* topic's actual count (0 for a topic studied today), and weak_topics and
\* strong_topics have at most 10 entries each.
C13_WeakSortedByActualDays ==
    AnalysedAll =>
        LET weak == last.result.weak_topics IN
        /\ \A i \in 1..Len(weak), j \in 1..Len(weak) :
              i < j => PairAtMost(ActualPair(weak[i]), ActualPair(weak[j]))
        /\ Len(weak) <= 10
        /\ Len(last.result.strong_topics) <= 10

\* the names of the frequency entries of an analysis
BucketNames(result) ==
    {result.topic_frequency[i].topic : i \in 1..Len(result.topic_frequency)}

\* C14: an analysis of the whole history counts every record under its topic
\* with only a final "(...)" group (and the whitespace around it) removed: the
\* buckets are exactly these names, each with the number of the records that
\* have it, so "ATP (energy) synthesis" keeps its name and is not counted
\* with "ATP".
C14_OnlyTrailingSuffixRemoved ==
    AnalysedAll =>
        /\ BucketNames(last.result) = {TrailingSuffixRemoved(p.topic) : p \in history}
        /\ \A i \in 1..Len(last.result.topic_frequency) :
              last.result.topic_frequency[i].count =
                  Cardinality({p \in history :
                      TrailingSuffixRemoved(p.topic) = last.result.topic_frequency[i].topic})

\* the request passed the readiness checks of lines 78-87
PassedReadiness ==
    last.op = "get_lesson" /\ last.stage \notin {"not_initialized", "collection_missing"}

\* C15: in a get_lesson request that passed the readiness checks, an exception
\* in a retrieval stage (encoding the query, the text search, the image
\* search, the web fallback) counts as that stage's empty result only: the
\* request still reaches the model call; after a failing text search the
\* context is the sentinel and the web fallback is decided by the local
\* images alone; a failing image search leaves the text context as the text
\* search gave it.
C15_RetrievalStagesIsolated ==
    PassedReadiness =>
        /\ last.stage = "done"
        /\ last.llmCalled
        /\ last.text.fails => last.llmContext = NO_CONTEXT
        /\ last.webCalled <=> Cardinality(PathsOfPayloads(last.imagePayloads)) < 2
        /\ last.llmContext =
              Take(ContextOrSentinel(TextContext(last.text.fails, last.text.hits)),
                   ContextLimit)

(***************************************************************************)
(* Claims about suggest_next_topic.                                        *)
(***************************************************************************)
\* ids is a choice of the (up to) 3 most recent stored records: no record
\* left out is newer than a record chosen
MostRecentThree(ids) ==
    /\ ids \subseteq Ids(history)
    /\ Cardinality(ids) = IF Cardinality(history) < 3 THEN Cardinality(history) ELSE 3
    /\ \A p \in history, q \in history :
          (p.id \in ids /\ q.id \notin ids) => ~DateLess(p.timestamp, q.timestamp)

\* C16: suggest_next_topic returns one of the two fixed suggestions, without
\* a model call or without using its result, when the history is empty or
\* something failed; otherwise it returns the model's text and the topics it
\* sent to the model are the topics of the 3 most recent records of the whole
\* store, newest first.
C16_SuggestUsesThreeMostRecent ==
    last.op = "suggest" =>
        /\ (history = {} \/ last.storeFailed) =>
              /\ ~last.llmCalled
              /\ last.result = START_SUGGESTION
        /\ (last.llmCalled /\ ~last.llm.ok) => last.result = FALLBACK_SUGGESTION
        /\ (history # {} /\ ~last.storeFailed) =>
              /\ last.llmCalled
              /\ last.llm.ok => last.result = last.llm.text
              /\ MostRecentThree({last.sentIds[i] : i \in 1..Len(last.sentIds)})
              /\ Len(last.sentIds) = Cardinality({last.sentIds[i] : i \in 1..Len(last.sentIds)})
              /\ \A i \in 1..Len(last.sentIds) :
                    last.sentTopics[i] = PointOf(history, last.sentIds[i]).topic
              /\ \A i \in 1..Len(last.sentIds), j \in 1..Len(last.sentIds) :
                    i < j => ~DateLess(PointOf(history, last.sentIds[i]).timestamp,
                                       PointOf(history, last.sentIds[j]).timestamp)

(***************************************************************************)
(* Further claims about the history engine.                                *)
(***************************************************************************)
\* C17: close_client never raises and leaves both handles unset, whether or
\* not the underlying close raised, and also when they were unset already (a
\* second close changes nothing else); while the client is unset, listing
\* returns the empty list, delete returns false, logging writes nothing, and
\* the stored records do not change.
C17_CloseReleasesHandles ==
    /\ [](last.op = "close_client" =>
             /\ client = None /\ encoder = None
             /\ ~last.raised)
    /\ [](client = None =>
             /\ last.op = "get_history" => last.result = <<>>
             /\ last.op = "delete" => last.result = FALSE
             /\ last.op = "log_activity" => ~last.wrote /\ ~last.raised)
    /\ [][client = None => history' = history]_vars

\* the underlying close raised, with records in the store
C17_Witness ==
    /\ last.op = "close_client" /\ last.closeRaised
    /\ history # {}
    /\ client = None /\ encoder = None

\* C18: every step of the store's operations (log, list, analyse, suggest,
\* delete, and startup and shutdown) either leaves the stored records as they
\* are, or is a log that adds exactly one record under an id no stored record
\* has, or is a delete that removes exactly the record with the id given; the
\* records that remain are unchanged.
C18_AppendOnlyExceptDelete ==
    [][\/ history' = history
       \/ /\ last'.op = "log_activity"
          /\ \E p \in history' :
                /\ p.id \notin Ids(history)
                /\ history' = history \cup {p}
       \/ /\ last'.op = "delete"
          /\ last'.id \in Ids(history)
          /\ history' = history \ {PointOf(history, last'.id)}]_vars

\* a delete removed one of two stored records and the other is still stored
C18_Witness ==
    /\ last.op = "delete" /\ last.existed /\ last.result
    /\ Cardinality(history) = 1
    /\ last.id \notin Ids(history)

(***************************************************************************)
(* Claims about concurrent requests.                                       *)
(***************************************************************************)
\* the response is built from the request's own query and from what the
\* collaborators returned to this request
BuiltFromOwn(resp) ==
    LET r == resp.result
        in == resp.in
    IN  /\ r.query = Arrived[resp.req]
        /\ r.stage = "done" =>
              /\ r.llmContext =
                    Take(ContextOrSentinel(TextContext(in.text.fails, in.text.hits)),
                         ContextLimit)
              /\ r.imagesBuilt = BuildImages(SearchImages(in.image.fails, in.image.hits), in.web)
              /\ r.images = Take(r.imagesBuilt, MaxReturnedImages)
              /\ r.answer = Answer(in.llm)
              /\ r.video \in {None, in.video}

\* the records stored for the response: those with its query and answer
\* under the id drawn for it
RecordsFor(resp) ==
    {p \in history : /\ p.id = resp.recordId
                     /\ p.topic = Arrived[resp.req]
                     /\ p.full_answer = resp.result.answer}

\* C19 as stated: with several requests in flight, handled in any order,
\* every response is built from its own query and collaborator results, and
\* every request that completes the pipeline has written exactly one history
\* record, for its own query and answer.
C19_RequestsIndependent ==
    last.op = "serve" =>
        /\ \A i \in 1..Len(Responses) : BuiltFromOwn(Responses[i])
        /\ \A i \in 1..Len(Responses) :
              Responses[i].result.stage = "done" =>
                  Cardinality(RecordsFor(Responses[i])) = 1
        /\ Cardinality(history) =
              Cardinality({i \in 1..Len(Responses) : Responses[i].result.stage = "done"})

\* C19 as amended: the same, the history record being required of every
\* request that completes the pipeline and whose history write did not raise;
\* a request whose write raised has written none.
C19_RequestsIndependentWhenWriteAccepted ==
    last.op = "serve" =>
        /\ \A i \in 1..Len(Responses) : BuiltFromOwn(Responses[i])
        /\ \A i \in 1..Len(Responses) :
              Responses[i].result.stage = "done" =>
                  Cardinality(RecordsFor(Responses[i])) =
                      IF Responses[i].result.logRaised THEN 0 ELSE 1
        /\ Cardinality(history) =
              Cardinality({i \in 1..Len(Responses) :
                  /\ Responses[i].result.stage = "done"
                  /\ ~Responses[i].result.logRaised})

\* two requests with different queries were in flight together and the one
\* that arrived second was answered first; both wrote their record
C19_Witness ==
    /\ last.op = "serve"
    /\ Len(Arrived) = 2 /\ Arrived[1] # Arrived[2]
    /\ Len(Responses) = 2
    /\ Responses[1].req = 2 /\ Responses[2].req = 1
    /\ Responses[1].result.logWrote /\ Responses[2].result.logWrote
    /\ Responses[1].result.answer # Responses[2].result.answer

\* C20: whenever an init_client call returns without raising, whatever calls
\* came before it, the client handle and the encoder handle are both set and
\* the history collection exists.
C20_InitReturnsInitialized ==
    (last.op = "init_client" /\ ~last.raised) =>
        /\ client # None
        /\ encoder # None
        /\ HISTORY_COLLECTION \in collections

====
